---- MODULE Spec2Model ----
(***************************************************************************)
(* Researcher analysis orchestrator of academic-bioeng-explorer:           *)
(*   - the retry policy (isRetriableError, the backoff of the retry loop), *)
(*   - the bounded worker pool runWithConcurrency,                         *)
(*   - the per-record status machine driven by the App handlers            *)
(*     (handleScholarIdSubmit, handleScholarIdLink, handleAnalyzeAll, ...).*)
(* Strings are TLA+ strings; Len, SubSeq and \o act on them character by   *)
(* character, which is how message tests of the code are computed here.    *)
(***************************************************************************)
EXTENDS Bags, Integers, Sequences, FiniteSets, TLC

(***************************************************************************)
(* Bounds of the model.  MaxItems and MaxConc bound the arguments of one   *)
(* runWithConcurrency call.  MaxCalls bounds the number of handler calls   *)
(* the user makes (extract, submit, link, favorite, delete, analyze all,   *)
(* retry failed, clear all); the steps of the runs they start are not      *)
(* counted.  MaxInterests bounds the number of interests in the texts the  *)
(* match computation is applied to.  MaxFavorites bounds the researchers   *)
(* shown in the letter section and MaxLetterCalls the calls of its two     *)
(* handlers.                                                               *)
(***************************************************************************)
MaxItems == 3
MaxConc == 4
MaxCalls == 3
MaxInterests == 5
MaxFavorites == 2
MaxLetterCalls == 3

(***************************************************************************)
(* Program constants (src/App.tsx:13-14).                                  *)
(***************************************************************************)
AUTO_RETRY_MAX_RETRIES == 2
AUTO_RETRY_BASE_DELAY_MS == 1000

(***************************************************************************)
(* String helpers: String.prototype.toLowerCase, String.prototype.includes *)
(* and the regular expression /\b(429|500|502|503|504)\b/.                 *)
(***************************************************************************)
UpperChars == "ABCDEFGHIJKLMNOPQRSTUVWXYZ"
LowerChars == "abcdefghijklmnopqrstuvwxyz"
DigitChars == "0123456789"

CharAt(s, i) == SubSeq(s, i, i)

LowerChar(c) ==
  IF \E i \in 1..26 : CharAt(UpperChars, i) = c
  THEN CharAt(LowerChars, CHOOSE i \in 1..26 : CharAt(UpperChars, i) = c)
  ELSE c

RECURSIVE toLowerCase(_)
toLowerCase(s) ==
  IF Len(s) = 0 THEN "" ELSE LowerChar(CharAt(s, 1)) \o toLowerCase(SubSeq(s, 2, Len(s)))

includes(s, p) ==
  \E i \in 1..(Len(s) - Len(p) + 1) : SubSeq(s, i, i + Len(p) - 1) = p

IsWordChar(c) ==
  \/ \E i \in 1..26 : CharAt(UpperChars, i) = c \/ CharAt(LowerChars, i) = c
  \/ \E i \in 1..10 : CharAt(DigitChars, i) = c
  \/ c = "_"

StatusTokens == {"429", "500", "502", "503", "504"}

\* /\b(429|500|502|503|504)\b/.test(s): an occurrence of one of the tokens
\* with no word character right before it and none right after it
MatchesStatusToken(s) ==
  \E t \in StatusTokens :
    \E i \in 1..(Len(s) - 2) :
      /\ SubSeq(s, i, i + 2) = t
      /\ (i = 1 \/ ~IsWordChar(CharAt(s, i - 1)))
      /\ (i + 2 = Len(s) \/ ~IsWordChar(CharAt(s, i + 3)))

(***************************************************************************)
(* Errors: an error value carries an optional numeric status and a message.*)
(***************************************************************************)
NoStatus == 0 - 1

Err(st, msg) == [status |-> st, message |-> msg]

IsRetriableErrorStrictGt(e) ==
  LET message == toLowerCase(e.message) IN
  \/ e.status = 429
  \/ (e.status # NoStatus /\ e.status > 500)
  \/ MatchesStatusToken(message)
  \/ includes(message, "rate limit")
  \/ includes(message, "too many requests")
  \/ includes(message, "temporarily unavailable")
  \/ includes(message, "service unavailable")
  \/ includes(message, "timeout")
  \/ includes(message, "network")

isRetriableError(e) ==
  LET message == toLowerCase(e.message) IN
  \/ e.status = 429
  \/ (e.status # NoStatus /\ e.status >= 500)
  \/ MatchesStatusToken(message)
  \/ includes(message, "rate limit")
  \/ includes(message, "too many requests")
  \/ includes(message, "temporarily unavailable")
  \/ includes(message, "service unavailable")
  \/ includes(message, "timeout")
  \/ includes(message, "network")

RECURSIVE Pow2(_)
Pow2(n) == IF n <= 0 THEN 1 ELSE 2 * Pow2(n - 1)

backoffMsOffByOne(attempt) == AUTO_RETRY_BASE_DELAY_MS * Pow2(attempt)

backoffMs(attempt) == AUTO_RETRY_BASE_DELAY_MS * Pow2(attempt - 1)

maxAttempts == AUTO_RETRY_MAX_RETRIES + 1

(***************************************************************************)
(* State.                                                                  *)
(*   runWithConcurrency (one call): items, maxConcurrency, workThrows are  *)
(*   the arguments (workThrows: the items whose work rejects), nextIndex   *)
(*   the shared cursor, runners the async runner functions, invoked the    *)
(*   number of work invocations per item, settled the items whose work has *)
(*   finished, poolResult the promise returned by the call.                *)
(*   isRetriableError probe: probeErr, probeOut.                           *)
(*   match computation probe: matchIn (interest text and reply field),     *)
(*   matchOut.                                                             *)
(***************************************************************************)
(*   App: researchers is the React state list of Researcher records, error *)
(*   the single error banner, config the two API keys of the build,        *)
(*   userInterests the interest text of the profile section, runs          *)
(*   the bag of handleScholarIdSubmit calls that have not returned yet     *)
(*   (each at its await: fetch, analyze or sleep; two calls with the same  *)
(*   arguments at the same place are two copies), calls and nextId count   *)
(*   the handler calls made and the ids handed out.                        *)
(*   CustomizeLetterSection: generationQueue is the chain of callbacks     *)
(*   hung on generationQueueRef, in the order they were chained, each      *)
(*   chained, calling its collaborator, or done; pendingGenerationIds the  *)
(*   set of pendingGenerationIdsRef; customizedLetter tells for each       *)
(*   researcher whether a letter is stored; letterCalls counts the calls   *)
(*   of handleCustomize and handleSubmitAnnotation.                        *)
VARIABLES items, maxConcurrency, workThrows, nextIndex, runners, invoked,
          settled, poolResult, probeErr, probeOut, matchIn, matchOut,
          researchers, error, config, userInterests, runs, calls, nextId,
          generationQueue, pendingGenerationIds, customizedLetter, letterCalls

letterVars == <<generationQueue, pendingGenerationIds, customizedLetter, letterCalls>>

appVars == <<researchers, error, config, userInterests, runs, calls, nextId>>

poolVars == <<items, maxConcurrency, workThrows, nextIndex, runners, invoked,
              settled, poolResult>>
probeVars == <<probeErr, probeOut, matchIn, matchOut>>

Min(a, b) == IF a <= b THEN a ELSE b
Max(a, b) == IF a >= b THEN a ELSE b

ConcRange == (0 - 1)..MaxConc

(***************************************************************************)
(* runWithConcurrency, src/App.tsx:16-34.                                  *)
(***************************************************************************)
concurrencyUnclamped(n, c) == n

concurrencyNoFloor(n, c) == Min(c, n)

concurrency(n, c) == Max(1, Min(c, n))

PoolIdle ==
  /\ nextIndex = 0
  /\ runners = <<>>
  /\ invoked = [i \in 1..items |-> 0]
  /\ settled = {}
  /\ poolResult = "notcalled"

PoolInit ==
  /\ items \in 0..MaxItems
  /\ maxConcurrency \in ConcRange
  /\ workThrows \in SUBSET (1..items)
  /\ PoolIdle

\* The call itself: the early return for an empty list, else the runners
\* are created one after the other and each runs synchronously up to its
\* first await: runner k claims item k (nextIndex++) and invokes worker.
RunWithConcurrency ==
  /\ poolResult = "notcalled"
  /\ IF items = 0
     THEN /\ poolResult' = "fulfilled"
          /\ UNCHANGED <<nextIndex, runners, invoked, settled>>
     ELSE LET c == concurrency(items, maxConcurrency)
              claimed == Min(c, items) IN
          /\ runners' = [k \in 1..c |->
                           IF k <= items THEN [st |-> "awaiting", item |-> k]
                                         ELSE [st |-> "done", item |-> 0]]
          /\ nextIndex' = Max(0, claimed)
          /\ invoked' = [i \in 1..items |-> IF i <= claimed THEN 1 ELSE 0]
          /\ poolResult' = IF c = 0 THEN "fulfilled" ELSE "pending"
          /\ UNCHANGED settled
  /\ UNCHANGED <<items, maxConcurrency, workThrows>>

AllRunnersDone(rs) == \A k \in 1..Len(rs) : rs[k].st = "done"

\* worker(items[currentIndex]) fulfils: the runner re-tests the loop
\* condition and either claims the next item or returns.
WorkerReturns(k) ==
  /\ k \in 1..Len(runners)
  /\ runners[k].st = "awaiting"
  /\ runners[k].item \notin workThrows
  /\ settled' = settled \cup {runners[k].item}
  /\ IF nextIndex < items
     THEN /\ runners' = [runners EXCEPT ![k] = [st |-> "awaiting", item |-> nextIndex + 1]]
          /\ nextIndex' = nextIndex + 1
          /\ invoked' = [invoked EXCEPT ![nextIndex + 1] = @ + 1]
          /\ UNCHANGED poolResult
     ELSE /\ runners' = [runners EXCEPT ![k] = [st |-> "done", item |-> 0]]
          /\ poolResult' = IF poolResult = "pending" /\ AllRunnersDone(runners')
                            THEN "fulfilled" ELSE poolResult
          /\ UNCHANGED <<nextIndex, invoked>>
  /\ UNCHANGED <<items, maxConcurrency, workThrows>>

\* worker(items[currentIndex]) rejects: the await throws inside the runner,
\* whose promise rejects; Promise.all rejects with the first rejection.
WorkerThrows(k) ==
  /\ k \in 1..Len(runners)
  /\ runners[k].st = "awaiting"
  /\ runners[k].item \in workThrows
  /\ settled' = settled \cup {runners[k].item}
  /\ runners' = [runners EXCEPT ![k] = [st |-> "rejected", item |-> 0]]
  /\ poolResult' = IF poolResult = "pending" THEN "rejected" ELSE poolResult
  /\ UNCHANGED <<items, maxConcurrency, workThrows, nextIndex, invoked>>

InFlight == {k \in 1..Len(runners) : runners[k].st = "awaiting"}

(***************************************************************************)
(* Researcher records (types.ts) and the App state, src/App.tsx:55-66.     *)
(* An absent optional field is "" (scholarAuthorId, interests) or FALSE    *)
(* (isFavorite); the tests the code makes on them are truthiness tests.    *)
(***************************************************************************)
AWAITING_SCHOLAR_ID == "AWAITING_SCHOLAR_ID"
PENDING == "PENDING"
LOADING == "LOADING"
COMPLETED == "COMPLETED"
ERROR == "ERROR"

null == "<null>"

SourceIds == {"sidA", "sidB"}

RawNames == {"ada lovelace", " Alan TURING ", ""}

RECURSIVE trim(_)
trim(s) ==
  IF Len(s) = 0 THEN s
  ELSE IF CharAt(s, 1) = " " THEN trim(SubSeq(s, 2, Len(s)))
  ELSE IF CharAt(s, Len(s)) = " " THEN trim(SubSeq(s, 1, Len(s) - 1))
  ELSE s

UpperChar(c) ==
  IF \E i \in 1..26 : CharAt(LowerChars, i) = c
  THEN CharAt(UpperChars, CHOOSE i \in 1..26 : CharAt(LowerChars, i) = c)
  ELSE c

\* split(' ').map(word => word.charAt(0).toUpperCase() + word.slice(1)).join(' '):
\* the first character of every space-separated word is upper-cased
RECURSIVE capitalizeWords(_, _)
capitalizeWords(s, i) ==
  IF i > Len(s) THEN ""
  ELSE (IF i = 1 \/ CharAt(s, i - 1) = " " THEN UpperChar(CharAt(s, i)) ELSE CharAt(s, i))
       \o capitalizeWords(s, i + 1)

normalizeName(s) == capitalizeWords(toLowerCase(trim(s)), 1)

Ids(rs) == {rs[i].id : i \in 1..Len(rs)}

MapIdEvery(rs, id, updated) == [i \in 1..Len(rs) |-> updated[i]]

\* prev.map(r => r.id === id ? updated(r) : r), updated[i] being the update
\* of rs[i]
MapId(rs, id, updated) == [i \in 1..Len(rs) |-> IF rs[i].id = id THEN updated[i] ELSE rs[i]]

Each(rs) == 1..Len(rs)

(***************************************************************************)
(* The match computation of analyzeScholarPublications,                    *)
(* src/services/geminiService.ts:626 and 690-733: the user's interest text *)
(* is split into interests, the reply's matched_user_interests are         *)
(* normalised against them, and the match type is computed from the two    *)
(* counts.                                                                 *)
(***************************************************************************)
IsSeparator(c) == c = "," \/ c = ";"

\* s.split(/[,;]+/) from position i on, cur being the piece read so far: a
\* run of separators ends one piece
RECURSIVE splitFrom(_, _, _)
splitFrom(s, i, cur) ==
  IF i > Len(s) THEN <<cur>>
  ELSE IF IsSeparator(CharAt(s, i))
       THEN IF i > 1 /\ IsSeparator(CharAt(s, i - 1))
            THEN splitFrom(s, i + 1, cur)
            ELSE <<cur>> \o splitFrom(s, i + 1, "")
       ELSE splitFrom(s, i + 1, cur \o CharAt(s, i))

\* userInterests.split(/[,;]+/).map(s => s.trim()).filter(s => s.length > 0)
parsedUserInterests(interestText) ==
  LET pieces == splitFrom(interestText, 1, "")
      trimmed == [i \in 1..Len(pieces) |-> trim(pieces[i])]
      nonEmpty(p) == Len(p) > 0
  IN SelectSeq(trimmed, nonEmpty)

\* userInterests && userInterests.trim().length > 0
hasUserInterests(interestText) == Len(trim(interestText)) > 0

\* new Map(parsed.map(i => [i.toLowerCase(), i])): has and get; a key given
\* twice keeps the value given last
userInterestMapHas(parsed, key) == \E i \in 1..Len(parsed) : toLowerCase(parsed[i]) = key

userInterestMapGet(parsed, key) ==
  LET last == CHOOSE i \in 1..Len(parsed) :
                /\ toLowerCase(parsed[i]) = key
                /\ \A j \in (i + 1)..Len(parsed) : toLowerCase(parsed[j]) # key
  IN parsed[last]

\* Array.from(new Set(list)): the first occurrence of every value, in order
RECURSIVE uniqueInOrder(_)
uniqueInOrder(list) ==
  IF Len(list) = 0 THEN <<>>
  ELSE LET init == uniqueInOrder(SubSeq(list, 1, Len(list) - 1))
           x == list[Len(list)]
       IN IF \E i \in 1..Len(init) : init[i] = x THEN init ELSE Append(init, x)

\* a reply's matched_user_interests: whether it is an array, and its items,
\* each a string or not
MatchedField(isArray, list) == [isArray |-> isArray, items |-> list]
Str(text) == [isString |-> TRUE, text |-> text]
NotStr == [isString |-> FALSE, text |-> ""]

knownInterestAny(parsed, item) == Len(item) > 0

\* the filter of line 701: item.length > 0 && userInterestMap.has(item)
knownInterest(parsed, item) == Len(item) > 0 /\ userInterestMapHas(parsed, item)

\* lines 695-703: rawMatchedInterests, filtered, lower-cased, de-duplicated
\* and mapped back to the user's spelling (userInterestMap.get(item) || item)
matchedInterests(parsed, field) ==
  LET raw == IF field.isArray THEN field.items ELSE <<>>
      isStr(item) == item.isString
      strings == SelectSeq(raw, isStr)
      lowered == [i \in 1..Len(strings) |-> toLowerCase(trim(strings[i].text))]
      known(item) == knownInterest(parsed, item)
      unique == uniqueInOrder(SelectSeq(lowered, known))
  IN [i \in 1..Len(unique) |->
        IF userInterestMapHas(parsed, unique[i])
        THEN userInterestMapGet(parsed, unique[i]) ELSE unique[i]]

NONE == "NONE"
LOW == "LOW"
PARTIAL == "PARTIAL"
HIGH == "HIGH"
PERFECT == "PERFECT"

highThresholdFloor(totalConcepts) == (totalConcepts * 4) \div 5

\* Math.ceil(totalConcepts * 0.8): the double nearest to 0.8 is 0.8 * (1 +
\* 2^-54), so the product rounds to the integer 0.8 * totalConcepts when
\* that is an integer, and the ceiling is that of (4 * totalConcepts) / 5
highThreshold(totalConcepts) == (totalConcepts * 4 + 4) \div 5

MatchResult(matchType, isMatch) == [matchType |-> matchType, isMatch |-> isMatch]

classifyPerfectFromTwo(has, totalConcepts, matchCount) ==
  IF ~has THEN MatchResult(NONE, FALSE)
  ELSE IF totalConcepts > 1 /\ matchCount = totalConcepts THEN MatchResult(PERFECT, TRUE)
  ELSE IF matchCount >= 2
       THEN IF matchCount >= highThreshold(totalConcepts) /\ totalConcepts >= 2
            THEN MatchResult(HIGH, TRUE)
            ELSE IF matchCount >= 3 THEN MatchResult(PARTIAL, TRUE)
            ELSE MatchResult(LOW, TRUE)
       ELSE MatchResult(NONE, FALSE)

classifyLowFromOne(has, totalConcepts, matchCount) ==
  IF ~has THEN MatchResult(NONE, FALSE)
  ELSE IF totalConcepts > 0 /\ matchCount = totalConcepts THEN MatchResult(PERFECT, TRUE)
  ELSE IF matchCount >= 1
       THEN IF matchCount >= highThreshold(totalConcepts) /\ totalConcepts >= 2
            THEN MatchResult(HIGH, TRUE)
            ELSE IF matchCount >= 3 THEN MatchResult(PARTIAL, TRUE)
            ELSE MatchResult(LOW, TRUE)
       ELSE MatchResult(NONE, FALSE)

\* the deterministic match logic, lines 705-733
classify(has, totalConcepts, matchCount) ==
  IF ~has THEN MatchResult(NONE, FALSE)
  ELSE IF totalConcepts > 0 /\ matchCount = totalConcepts THEN MatchResult(PERFECT, TRUE)
  ELSE IF matchCount >= 2
       THEN IF matchCount >= highThreshold(totalConcepts) /\ totalConcepts >= 2
            THEN MatchResult(HIGH, TRUE)
            ELSE IF matchCount >= 3 THEN MatchResult(PARTIAL, TRUE)
            ELSE MatchResult(LOW, TRUE)
       ELSE MatchResult(NONE, FALSE)

\* the match part of the AnalysisResult returned for an interest text and a
\* reply (lines 690-742)
analysisMatch(interestText, field) ==
  LET parsed == parsedUserInterests(interestText)
      matched == matchedInterests(parsed, field)
      result == classify(hasUserInterests(interestText), Len(parsed), Len(matched))
  IN [totalConcepts |-> Len(parsed), matchType |-> result.matchType,
      isMatch |-> result.isMatch, matchedInterests |-> matched]

(***************************************************************************)
(* The collaborators and the errors the code builds around them.           *)
(***************************************************************************)
NoErr == Err(NoStatus, "")

\* fetchScholarPublications, src/unnamed/part_002 (serpApiService.ts)
SerpKeyMissing == Err(NoStatus, "SERP_API_KEY is not configured in .env.local")

\* !response.ok: `SerpAPI request failed: ${response.status} ${response.statusText}`
SerpHttpError(statusLine) == Err(NoStatus, "SerpAPI request failed: " \o statusLine)

\* the catch of fetchScholarPublications: a new Error, the status is not copied
fetchFailed(cause) == Err(NoStatus, "Failed to fetch publications: " \o cause.message)

\* what reaches the catch of fetchScholarPublications: a non-ok HTTP answer
FetchCauses ==
  { SerpHttpError("404 Not Found"),
    SerpHttpError("503 Service Unavailable") }

FetchReplies ==
  {[ok |-> TRUE, articles |-> n, err |-> NoErr] : n \in {0, 2}}
  \cup {[ok |-> FALSE, articles |-> 0, err |-> fetchFailed(c)] : c \in FetchCauses}

FetchOutcomes(cfg) ==
  IF ~cfg.serpKey
  THEN {[ok |-> FALSE, articles |-> 0, err |-> SerpKeyMissing]}
  ELSE FetchReplies

EmptyProfileError ==
  Err(NoStatus, "No publications found for this Scholar ID. Please verify the ID correctly matches the professor.")

\* analyzeScholarPublications, src/services/geminiService.ts:619-748
GeminiKeyMissing == Err(NoStatus, "API Key is missing.")

\* the catch of analyzeScholarPublications: a new Error, the status is not copied
analysisFailed(cause) ==
  Err(NoStatus, "Gemini analysis failed: "
                \o (IF cause.message = "" THEN "Unknown error" ELSE cause.message))

\* what reaches the catch of analyzeScholarPublications: generateContent
\* rejecting with an API error, and JSON.parse(jsonStr) throwing a SyntaxError
\* on a reply that is not JSON (the text is the JavaScript engine's and
\* names the place of the error: a reply cut at its end, a reply that is
\* wrong at character 429)
ApiErrors == { Err(429, "Resource has been exhausted (e.g. check quota).") }

JsonSyntaxErrors ==
  { Err(NoStatus, "Unexpected end of JSON input"),
    Err(NoStatus, "Expected ',' or '}' after property value in JSON at position 429 (line 9 column 7)") }

AnalyzeCauses == ApiErrors \cup JsonSyntaxErrors

\* the summary field of a reply that parsed to an object ("" when absent)
ReplySummaries == {"", "Works on medical imaging."}

\* the replies that parse to an object: the reply {} and a full reply
\* (summary, keywords "" / <<>> when absent, matched_user_interests)
ReplyBodies ==
  { [summary |-> "", keywords |-> <<>>, matched |-> MatchedField(FALSE, <<>>)],
    [summary |-> "Works on medical imaging.", keywords |-> <<"MRI", "segmentation">>,
     matched |-> MatchedField(TRUE, <<Str("medical imaging"), Str("robotics")>>)] }

NoBody == [summary |-> "", keywords |-> <<>>, matched |-> MatchedField(FALSE, <<>>)]

AnalyzeReplies ==
  {[ok |-> TRUE, summary |-> b.summary, keywords |-> b.keywords, matched |-> b.matched,
    err |-> NoErr] : b \in ReplyBodies}
  \cup {[ok |-> FALSE, summary |-> "", keywords |-> <<>>, matched |-> NoBody.matched,
         err |-> analysisFailed(c)] : c \in AnalyzeCauses}

AnalyzeOutcomes(cfg) ==
  IF ~cfg.geminiKey
  THEN {[ok |-> FALSE, summary |-> "", keywords |-> <<>>, matched |-> NoBody.matched,
         err |-> GeminiKeyMissing]}
  ELSE AnalyzeReplies

\* the interest texts of the profile section
InterestChoices == {"", "Medical Imaging, Robotics, NLP"}

\* analysisMatch tabulated over the texts and replies of the model
matchTable ==
  [u \in InterestChoices, f \in {b.matched : b \in ReplyBodies} |-> analysisMatch(u, f)]

\* summary: parsed.summary || "No summary available."
resultSummary(parsedSummary) ==
  IF parsedSummary = "" THEN "No summary available." ELSE parsedSummary

\* the AnalysisResult returned for a reply (lines 735-742); keywords is
\* parsed.keywords || []
analysisResult(out, interestText) ==
  [summary |-> resultSummary(out.summary), keywords |-> out.keywords,
   isMatch |-> matchTable[interestText, out.matched].isMatch,
   matchType |-> matchTable[interestText, out.matched].matchType,
   matchedInterests |-> matchTable[interestText, out.matched].matchedInterests]

(***************************************************************************)
(* Initial state: the application after mount with nothing persisted.      *)
(***************************************************************************)
AppInit ==
  /\ researchers = <<>>
  /\ error = null
  /\ config \in [serpKey : BOOLEAN, geminiKey : BOOLEAN]
  /\ userInterests = ""
  /\ runs = EmptyBag
  /\ calls = 0
  /\ nextId = 1

AppIdle ==
  /\ researchers = <<>>
  /\ error = null
  /\ config = [serpKey |-> TRUE, geminiKey |-> TRUE]
  /\ userInterests = ""
  /\ runs = EmptyBag
  /\ calls = 0
  /\ nextId = 1

(***************************************************************************)
(* handleExtractNames, src/App.tsx:175-212 (the names are the reply of     *)
(* extractNamesFromText).                                                  *)
(***************************************************************************)
NameLists ==
  {<<a>> : a \in RawNames}
  \cup { <<"ada lovelace", " Alan TURING ">>, <<"ada lovelace", "ada lovelace">> }

\* normalizeName and toLowerCase tabulated over the names of the model
normalizedName == [s \in RawNames |-> normalizeName(s)]
lowerName == [s \in {normalizedName[n] : n \in RawNames} |-> toLowerCase(s)]

existingNames(rs) == {lowerName[rs[i].name] : i \in 1..Len(rs)}

\* an optional field is <<>> when undefined and <<v>> when it holds v;
\* matchedInterests is <<>> both when undefined and when []
undefined == <<>>

NewResearcher(id, name) ==
  [id |-> id, name |-> name, status |-> AWAITING_SCHOLAR_ID, scholarAuthorId |-> "",
   interests |-> "", tags |-> <<>>, profileUrl |-> undefined, isMatch |-> undefined,
   matchType |-> undefined, matchedInterests |-> <<>>, isFavorite |-> FALSE]

handleExtractNames(names) ==
  LET normalized == [i \in 1..Len(names) |-> normalizedName[names[i]]]
      fresh(name) == Len(name) > 0 /\ lowerName[name] \notin existingNames(researchers)
      kept == SelectSeq(normalized, fresh)
      newResearchers == [i \in 1..Len(kept) |-> NewResearcher(nextId + i - 1, kept[i])]
  IN
  /\ calls < MaxCalls
  /\ calls' = calls + 1
  /\ researchers' = researchers \o newResearchers
  /\ nextId' = nextId + Len(kept)
  /\ error' = null
  /\ UNCHANGED <<config, userInterests, runs>>

(***************************************************************************)
(* handleScholarIdSubmit, src/App.tsx:215-287.  The synchronous part of a  *)
(* call adds a run, which then waits at fetchScholarPublications.          *)
(***************************************************************************)
\* interestText is the userInterests of the render the callback was made in
\* (the dependency list of line 287)
NewRun(id, scholarId) ==
  [id |-> id, scholarId |-> scholarId, interestText |-> userInterests, attempt |-> 1,
   pc |-> "fetch", lastError |-> NoErr, sleepMs |-> 0]

markLoadingKeepId(r, scholarId) == [r EXCEPT !.status = LOADING]

markLoading(r, scholarId) == [r EXCEPT !.scholarAuthorId = scholarId, !.status = LOADING]

handleScholarIdSubmit(id, scholarId) ==
  /\ id \in Ids(researchers)
  /\ calls < MaxCalls
  /\ researchers' = MapId(researchers, id,
                          [i \in Each(researchers) |-> markLoading(researchers[i], scholarId)])
  /\ error' = null
  /\ runs' = runs (+) SetToBag({NewRun(id, scholarId)})
  /\ calls' = calls + 1
  /\ UNCHANGED <<config, userInterests, nextId>>

\* the errors an attempt can fail with, and isRetriableError tabulated over them
AttemptErrors ==
  {SerpKeyMissing, GeminiKeyMissing, EmptyProfileError}
  \cup {fetchFailed(c) : c \in FetchCauses} \cup {analysisFailed(c) : c \in AnalyzeCauses}

retriable == [e \in AttemptErrors |-> isRetriableError(e)]

\* the inner catch (lines 263-275) followed, when it rethrows, by the outer
\* catch (lines 278-283)
retryAlways(run, e) == run.attempt # maxAttempts

shouldRetry(run, e) == ~(run.attempt = maxAttempts \/ ~retriable[e])

markErrorAsDone(r) ==
  [r EXCEPT !.status = COMPLETED, !.interests = "Failed to analyze publications."]

markError(r) == [r EXCEPT !.status = ERROR]

attemptFailed(run, e) ==
  IF shouldRetry(run, e)
  THEN /\ runs' = (runs (-) SetToBag({run})) (+)
                  SetToBag({[run EXCEPT !.pc = "sleep", !.lastError = e,
                                        !.sleepMs = backoffMs(run.attempt)]})
       /\ UNCHANGED <<researchers, error>>
  ELSE /\ runs' = runs (-) SetToBag({run})
       /\ error' = IF e.message = "" THEN "Failed to analyze publications." ELSE e.message
       /\ researchers' = MapId(researchers, run.id,
                               [i \in Each(researchers) |-> markError(researchers[i])])

\* await fetchScholarPublications(scholarId) settles (lines 232-237)
FetchSettles(run, out) ==
  /\ BagIn(run, runs) /\ run.pc = "fetch"
  /\ out \in FetchOutcomes(config)
  /\ IF out.ok /\ out.articles > 0
     THEN /\ runs' = (runs (-) SetToBag({run})) (+) SetToBag({[run EXCEPT !.pc = "analyze"]})
          /\ UNCHANGED <<researchers, error>>
     ELSE attemptFailed(run, IF out.ok THEN EmptyProfileError ELSE out.err)
  /\ UNCHANGED <<config, userInterests, calls, nextId>>

profileUrlOf(scholarId) == "https://scholar.google.com/citations?user=" \o scholarId

markCompleted(r, result, scholarId) ==
  [r EXCEPT !.status = COMPLETED, !.interests = result.summary, !.tags = result.keywords,
            !.profileUrl = <<profileUrlOf(scholarId)>>, !.isMatch = <<result.isMatch>>,
            !.matchType = <<result.matchType>>,
            !.matchedInterests = result.matchedInterests]

\* await analyzeScholarPublications(...) settles (lines 240-262)
AnalyzeSettles(run, out) ==
  /\ BagIn(run, runs) /\ run.pc = "analyze"
  /\ out \in AnalyzeOutcomes(config)
  /\ IF out.ok
     THEN /\ runs' = runs (-) SetToBag({run})
          /\ researchers' = MapId(researchers, run.id,
                 [i \in Each(researchers) |->
                    markCompleted(researchers[i], analysisResult(out, run.interestText),
                                  run.scholarId)])
          /\ UNCHANGED error
     ELSE attemptFailed(run, out.err)
  /\ UNCHANGED <<config, userInterests, calls, nextId>>

\* await sleep(backoffMs) returns (line 274): the loop starts the next attempt
SleepReturns(run) ==
  /\ BagIn(run, runs) /\ run.pc = "sleep"
  /\ runs' = (runs (-) SetToBag({run})) (+)
             SetToBag({[run EXCEPT !.pc = "fetch", !.attempt = @ + 1,
                                   !.lastError = NoErr, !.sleepMs = 0]})
  /\ UNCHANGED <<researchers, error, config, userInterests, calls, nextId>>

(***************************************************************************)
(* handleScholarIdLink, handleToggleFavorite, handleDeleteResearcher,      *)
(* src/App.tsx:289-316.                                                    *)
(***************************************************************************)
linkScholarId(r, scholarId) ==
  [r EXCEPT !.scholarAuthorId = scholarId, !.status = PENDING, !.interests = "",
            !.tags = <<>>, !.profileUrl = undefined, !.isMatch = undefined,
            !.matchType = undefined, !.matchedInterests = <<>>]

handleScholarIdLink(id, scholarId) ==
  /\ id \in Ids(researchers)
  /\ researchers' = MapId(researchers, id,
                          [i \in Each(researchers) |-> linkScholarId(researchers[i], scholarId)])
  /\ error' = null
  /\ calls < MaxCalls
  /\ calls' = calls + 1
  /\ UNCHANGED <<config, userInterests, runs, nextId>>

toggleFavorite(r) == [r EXCEPT !.isFavorite = ~r.isFavorite]

handleToggleFavorite(id) ==
  /\ id \in Ids(researchers)
  /\ researchers' = MapId(researchers, id,
                          [i \in Each(researchers) |-> toggleFavorite(researchers[i])])
  /\ calls < MaxCalls
  /\ calls' = calls + 1
  /\ UNCHANGED <<error, config, userInterests, runs, nextId>>

handleDeleteResearcher(id) ==
  /\ id \in Ids(researchers)
  /\ LET keep(r) == r.id # id IN researchers' = SelectSeq(researchers, keep)
  /\ calls < MaxCalls
  /\ calls' = calls + 1
  /\ UNCHANGED <<error, config, userInterests, runs, nextId>>

(***************************************************************************)
(* handleAnalyzeAll and handleRetryFailed, src/App.tsx:319-363.  Both call *)
(* runWithConcurrency(list, list.length, submit): concurrency(n, n) = n    *)
(* runners are created, so every record of the list is claimed and its     *)
(* handleScholarIdSubmit started in the synchronous part of the call.      *)
(***************************************************************************)
analyzeEligibleWhileLoading(r) ==
  r.scholarAuthorId # "" /\ r.status # COMPLETED

analyzeEligible(r) ==
  r.scholarAuthorId # "" /\ r.status # COMPLETED /\ r.status # LOADING

retryEligible(r) == r.status = ERROR /\ r.scholarAuthorId # ""

\* the synchronous parts of handleScholarIdSubmit(r.id, r.scholarAuthorId)
\* for the records of list, in list order
submitAll(list) ==
  /\ researchers' = [i \in 1..Len(researchers) |->
                       IF researchers[i].id \in Ids(list)
                       THEN markLoading(researchers[i], researchers[i].scholarAuthorId)
                       ELSE researchers[i]]
  /\ runs' = runs (+) SetToBag({NewRun(list[i].id, list[i].scholarAuthorId) :
                                   i \in 1..Len(list)})
  /\ error' = null

handleAnalyzeAll ==
  LET toAnalyze == SelectSeq(researchers, analyzeEligible) IN
  /\ calls < MaxCalls
  /\ calls' = calls + 1
  /\ IF Len(toAnalyze) = 0
     THEN /\ error' = "No researchers with author IDs ready to analyze (already analyzed or missing ID)"
          /\ UNCHANGED <<researchers, runs>>
     ELSE submitAll(toAnalyze)
  /\ UNCHANGED <<config, userInterests, nextId>>

handleRetryFailed ==
  LET retryable == SelectSeq(researchers, retryEligible) IN
  /\ Len(retryable) > 0
  /\ calls < MaxCalls
  /\ calls' = calls + 1
  /\ submitAll(retryable)
  /\ UNCHANGED <<config, userInterests, nextId>>

(***************************************************************************)
(* setUserInterests, src/App.tsx:56 and 527: the user edits the interest   *)
(* text of the profile section.                                            *)
(***************************************************************************)
setUserInterests(text) ==
  /\ calls < MaxCalls
  /\ calls' = calls + 1
  /\ userInterests' = text
  /\ UNCHANGED <<researchers, error, config, runs, nextId>>

(***************************************************************************)
(* The mount effect, src/App.tsx:75-141, when the page is loaded again:    *)
(* the records are the ones the save effect (lines 144-150) wrote at their *)
(* last change, the interest text the saved one, the calls of the previous *)
(* page are gone with their page, and a researcher_id / author_id pair in  *)
(* the URL is applied to the restored records.                             *)
(***************************************************************************)
\* lines 122-130
linkFromUrl(r, authorId) == [r EXCEPT !.scholarAuthorId = authorId, !.status = PENDING]

initEffect(hasParams, researcherId, authorId) ==
  /\ calls < MaxCalls
  /\ calls' = calls + 1
  /\ researchers' =
       IF hasParams
       THEN MapId(researchers, researcherId,
                  [i \in Each(researchers) |-> linkFromUrl(researchers[i], authorId)])
       ELSE researchers
  /\ runs' = EmptyBag
  /\ error' = null
  /\ UNCHANGED <<config, userInterests, nextId>>

(***************************************************************************)
(* confirmClearAll, src/App.tsx:370-390.                                   *)
(***************************************************************************)
keepOnClearLinked(r) == r.isFavorite /\ r.scholarAuthorId # ""

keepOnClear(r) == r.isFavorite

confirmClearAll ==
  /\ researchers' = SelectSeq(researchers, keepOnClear)
  /\ error' = null
  /\ calls < MaxCalls
  /\ calls' = calls + 1
  /\ UNCHANGED <<config, userInterests, runs, nextId>>

(***************************************************************************)
(* handleCustomize and handleSubmitAnnotation,                             *)
(* src/components/CustomizeLetterSection.tsx:394-427 and 510-569.  Both    *)
(* hang an async callback on generationQueueRef.current with then(); the   *)
(* callback awaits one collaborator call inside try / catch / finally, so  *)
(* its promise always fulfils.                                             *)
(***************************************************************************)
FavoriteIds == 1..MaxFavorites

GENERATE == "generate"
REVISE == "revise"

LetterIdle ==
  /\ generationQueue = <<>>
  /\ pendingGenerationIds = {}
  /\ customizedLetter = [id \in FavoriteIds |-> FALSE]
  /\ letterCalls = 0

\* pendingGenerationIdsRef.current.add(id) and
\* generationQueueRef.current = generationQueueRef.current.then(callback)
chainRequest(id, kind) ==
  /\ pendingGenerationIds' = pendingGenerationIds \cup {id}
  /\ generationQueue' = Append(generationQueue,
                               [id |-> id, kind |-> kind, st |-> "chained", result |-> "none"])

\* lines 394-427; hasTemplate is letterTemplate.trim() being non-empty
handleCustomize(id, hasTemplate) ==
  /\ letterCalls < MaxLetterCalls
  /\ letterCalls' = letterCalls + 1
  /\ IF ~hasTemplate \/ id \in pendingGenerationIds
     THEN UNCHANGED <<generationQueue, pendingGenerationIds>>
     ELSE chainRequest(id, GENERATE)
  /\ UNCHANGED customizedLetter

\* lines 510-569 for the researcher in view; hasNote is the annotation
\* popover being open with a non-empty note
handleSubmitAnnotation(id, hasNote) ==
  /\ letterCalls < MaxLetterCalls
  /\ letterCalls' = letterCalls + 1
  /\ IF ~hasNote \/ ~customizedLetter[id] \/ id \in pendingGenerationIds
     THEN UNCHANGED <<generationQueue, pendingGenerationIds>>
     ELSE chainRequest(id, REVISE)
  /\ UNCHANGED customizedLetter

predecessorFulfilledAlways(queue, k) == TRUE

\* then(): the callback chained at position k runs once the promise it was
\* chained on, that of the callback before it, has fulfilled
predecessorFulfilled(queue, k) == IF k = 1 THEN TRUE ELSE queue[k - 1].st = "done"

\* the callback starts and awaits generateCustomizedLetter (line 409) or
\* reviseCustomizedLetterWithAnnotation (line 524)
callbackStarts(k) ==
  /\ k \in 1..Len(generationQueue)
  /\ generationQueue[k].st = "chained"
  /\ predecessorFulfilled(generationQueue, k)
  /\ generationQueue' = [generationQueue EXCEPT ![k].st = "calling"]
  /\ UNCHANGED <<pendingGenerationIds, customizedLetter, letterCalls>>

\* the collaborator call settles: a generated letter is stored
\* (onUpdateResearcher, line 413), a revision only makes a preview, a
\* failure is caught; the finally block removes the id (lines 422-425,
\* 564-567)
callbackSettles(k, ok) ==
  /\ k \in 1..Len(generationQueue)
  /\ generationQueue[k].st = "calling"
  /\ generationQueue' = [generationQueue EXCEPT
                           ![k].st = "done",
                           ![k].result = IF ok THEN "ok" ELSE "failed"]
  /\ customizedLetter' =
       IF ok /\ generationQueue[k].kind = GENERATE
       THEN [customizedLetter EXCEPT ![generationQueue[k].id] = TRUE]
       ELSE customizedLetter
  /\ pendingGenerationIds' = pendingGenerationIds \ {generationQueue[k].id}
  /\ UNCHANGED letterCalls

(***************************************************************************)
(* The application: every handler may be invoked between any two steps of  *)
(* the runs in flight.                                                     *)
(***************************************************************************)
NoMatchOut ==
  [done |-> FALSE, totalConcepts |-> 0, matchType |-> NONE, isMatch |-> FALSE,
   matchedInterests |-> <<>>]

MatchIdle ==
  /\ matchIn = [userInterests |-> "", field |-> MatchedField(FALSE, <<>>)]
  /\ matchOut = NoMatchOut

ProbeIdle == probeErr = NoErr /\ probeOut = "none" /\ MatchIdle

PoolUnused ==
  /\ items = 0
  /\ maxConcurrency = 0
  /\ workThrows = {}
  /\ PoolIdle

vars == <<items, maxConcurrency, workThrows, nextIndex, runners, invoked,
          settled, poolResult, probeErr, probeOut, matchIn, matchOut,
          researchers, error, config, userInterests, runs, calls, nextId,
          generationQueue, pendingGenerationIds, customizedLetter, letterCalls>>

Init == AppInit /\ PoolUnused /\ ProbeIdle /\ LetterIdle

otherVars == <<poolVars, probeVars, letterVars>>

ExtractNames ==
  /\ \E names \in NameLists : handleExtractNames(names)
  /\ UNCHANGED otherVars
Submit ==
  /\ \E id \in Ids(researchers), sid \in SourceIds : handleScholarIdSubmit(id, sid)
  /\ UNCHANGED otherVars
Link ==
  /\ \E id \in Ids(researchers), sid \in SourceIds : handleScholarIdLink(id, sid)
  /\ UNCHANGED otherVars
ToggleFavorite ==
  /\ \E id \in Ids(researchers) : handleToggleFavorite(id)
  /\ UNCHANGED otherVars
Delete ==
  /\ \E id \in Ids(researchers) : handleDeleteResearcher(id)
  /\ UNCHANGED otherVars
AnalyzeAll == handleAnalyzeAll /\ UNCHANGED otherVars
RetryFailed == handleRetryFailed /\ UNCHANGED otherVars
ClearAll == confirmClearAll /\ UNCHANGED otherVars
EditInterests ==
  /\ \E text \in InterestChoices : setUserInterests(text)
  /\ UNCHANGED otherVars
Reload ==
  /\ \/ initEffect(FALSE, 0, "")
     \/ \E id \in Ids(researchers), sid \in SourceIds : initEffect(TRUE, id, sid)
  /\ UNCHANGED otherVars
FetchStep ==
  /\ \E run \in BagToSet(runs) : \E out \in FetchOutcomes(config) : FetchSettles(run, out)
  /\ UNCHANGED otherVars
AnalyzeStep ==
  /\ \E run \in BagToSet(runs) : \E out \in AnalyzeOutcomes(config) : AnalyzeSettles(run, out)
  /\ UNCHANGED otherVars
SleepStep ==
  /\ \E run \in BagToSet(runs) : SleepReturns(run)
  /\ UNCHANGED otherVars

Next ==
  \/ ExtractNames
  \/ Submit
  \/ Link
  \/ ToggleFavorite
  \/ Delete
  \/ AnalyzeAll
  \/ RetryFailed
  \/ ClearAll
  \/ Reload
  \/ EditInterests
  \/ FetchStep
  \/ AnalyzeStep
  \/ SleepStep

Spec == Init /\ [][Next]_vars

\* every collaborator call and every backoff sleep of a run in flight
\* eventually finishes
FairSpec ==
  /\ Init /\ [][Next]_vars
  /\ WF_vars(FetchStep) /\ WF_vars(AnalyzeStep) /\ WF_vars(SleepStep)

(***************************************************************************)
(* One call of runWithConcurrency with arbitrary arguments.                *)
(***************************************************************************)
PoolSpecInit == PoolInit /\ AppIdle /\ ProbeIdle /\ LetterIdle

PoolCall == RunWithConcurrency /\ UNCHANGED <<appVars, probeVars, letterVars>>
PoolReturns ==
  /\ \E k \in 1..Len(runners) : WorkerReturns(k)
  /\ UNCHANGED <<appVars, probeVars, letterVars>>
PoolThrows ==
  /\ \E k \in 1..Len(runners) : WorkerThrows(k)
  /\ UNCHANGED <<appVars, probeVars, letterVars>>

PoolNext ==
  \/ PoolCall
  \/ PoolReturns
  \/ PoolThrows

PoolSpec == PoolSpecInit /\ [][PoolNext]_vars

(***************************************************************************)
(* isRetriableError applied to one error value.                            *)
(***************************************************************************)
ProbeStatuses == {NoStatus, 0, 200, 404, 428, 429, 430, 499, 500, 501, 503, 599}

ProbeMessages ==
  { "", "Not Found", "Rate Limit exceeded", "rate limited", "Too Many Requests",
    "TEMPORARILY UNAVAILABLE", "Service Unavailable", "Request Timeout", "timed out",
    "NetworkError when attempting to fetch resource.", "Failed to fetch",
    "HTTP 429", "error429", "4290", "code:503.", "5000 ms elapsed", "status 501",
    "x_500", "502", "got 504, retrying", "SerpAPI request failed: 404 Not Found",
    "API Key is missing." }

ProbeInit ==
  /\ probeErr \in {Err(st, m) : st \in ProbeStatuses, m \in ProbeMessages}
  /\ probeOut = "none"
  /\ MatchIdle

Classify ==
  /\ probeOut = "none"
  /\ probeOut' = IF isRetriableError(probeErr) THEN "true" ELSE "false"
  /\ UNCHANGED <<probeErr, matchIn, matchOut, poolVars, appVars, letterVars>>

RetryNext == Classify

RetrySpecInit == ProbeInit /\ PoolUnused /\ AppIdle /\ LetterIdle

RetrySpec == RetrySpecInit /\ [][RetryNext]_vars

(***************************************************************************)
(* The match computation applied to one interest text and one reply.       *)
(***************************************************************************)
Tokens ==
  <<"Medical Imaging", "Robotics", "NLP", "MRI", "Genomics", "Optics", "Proteomics">>

\* the first n tokens joined by ", "
RECURSIVE joinTokens(_)
joinTokens(n) ==
  IF n = 0 THEN ""
  ELSE IF n = 1 THEN Tokens[1]
  ELSE joinTokens(n - 1) \o ", " \o Tokens[n]

InterestTexts ==
  {joinTokens(n) : n \in 0..MaxInterests}
  \cup { "   ", " ;, ", "NLP, nlp", "mri;;Robotics , ,NLP;", "Robotics, NLP, robotics" }

\* the first m tokens as the model reports them, in lower case
firstTokens(m) == [i \in 1..m |-> Str(toLowerCase(Tokens[i]))]

MatchedFields ==
  {MatchedField(TRUE, firstTokens(m)) : m \in 0..(MaxInterests + 1)}
  \cup { MatchedField(FALSE, <<>>),
         MatchedField(TRUE, <<Str(" ROBOTICS "), Str("robotics"), Str("Quantum Computing")>>),
         MatchedField(TRUE, <<NotStr, Str("nlp"), Str(""), Str("Robotics")>>),
         MatchedField(TRUE, <<Str("NLP"), Str("mri"), Str("Robotics"), Str("nlp ")>>) }

MatchInit ==
  /\ matchIn \in [userInterests : InterestTexts, field : MatchedFields]
  /\ matchOut = NoMatchOut
  /\ probeErr = NoErr
  /\ probeOut = "none"

ClassifyMatch ==
  /\ ~matchOut.done
  /\ LET m == analysisMatch(matchIn.userInterests, matchIn.field)
     IN matchOut' = [done |-> TRUE, totalConcepts |-> m.totalConcepts,
                     matchType |-> m.matchType, isMatch |-> m.isMatch,
                     matchedInterests |-> m.matchedInterests]
  /\ UNCHANGED <<matchIn, probeErr, probeOut, poolVars, appVars, letterVars>>

MatchNext == ClassifyMatch

MatchSpecInit == MatchInit /\ PoolUnused /\ AppIdle /\ LetterIdle

MatchSpec == MatchSpecInit /\ [][MatchNext]_vars

(***************************************************************************)
(* The letter section: the two handlers called for the researchers in      *)
(* view, and the callbacks of the chain.                                   *)
(***************************************************************************)
LetterSpecInit == LetterIdle /\ PoolUnused /\ AppIdle /\ ProbeIdle

Customize ==
  /\ \E id \in FavoriteIds, hasTemplate \in BOOLEAN : handleCustomize(id, hasTemplate)
  /\ UNCHANGED <<poolVars, probeVars, appVars>>
SubmitAnnotation ==
  /\ \E id \in FavoriteIds, hasNote \in BOOLEAN : handleSubmitAnnotation(id, hasNote)
  /\ UNCHANGED <<poolVars, probeVars, appVars>>
CallbackStarts ==
  /\ \E k \in 1..Len(generationQueue) : callbackStarts(k)
  /\ UNCHANGED <<poolVars, probeVars, appVars>>
CallbackSettles ==
  /\ \E k \in 1..Len(generationQueue), ok \in BOOLEAN : callbackSettles(k, ok)
  /\ UNCHANGED <<poolVars, probeVars, appVars>>

LetterNext ==
  \/ Customize
  \/ SubmitAnnotation
  \/ CallbackStarts
  \/ CallbackSettles

LetterSpec == LetterSpecInit /\ [][LetterNext]_vars

(***************************************************************************)
(* Properties.                                                             *)
(***************************************************************************)

\* C1: at most one pipeline run per record id is in flight at any time: a
\* submit for a record that already has a run in flight starts no second run.
C1_AtMostOneRunPerRecord ==
  \A r1 \in BagToSet(runs) :
    /\ CopiesIn(r1, runs) = 1
    /\ \A r2 \in BagToSet(runs) : r1.id = r2.id => r1 = r2

\* the work invocations that have started and not finished
InvocationsInFlight == {i \in 1..items : invoked[i] > 0 /\ i \notin settled}

PoolQuiescent == poolResult # "notcalled" /\ InFlight = {}

C3_ThrowDoesNotHaltQueue ==
  (PoolQuiescent /\ maxConcurrency >= 1 /\ Cardinality(workThrows) = 1)
    => \A i \in 1..items : invoked[i] = 1 /\ i \in settled

\* C4: the number of work invocations in flight never exceeds
\* max(1, min(C, N)); with C = 1 at most one invocation is in flight, so an
\* invocation starts only after the previous one has finished.
C4_InFlightBounded ==
  LET limit == IF maxConcurrency < 1 \/ items < 1 THEN 1
               ELSE IF maxConcurrency < items THEN maxConcurrency ELSE items
  IN /\ Cardinality(InvocationsInFlight) <= limit
     /\ (maxConcurrency = 1 => Cardinality(InvocationsInFlight) <= 1)

C4_Witness ==
  /\ maxConcurrency = 2
  /\ items = 3
  /\ Cardinality(InvocationsInFlight) = 2
  /\ settled # {}

\* C5: a submission runs the pipeline at most 3 times, and attempt n+1 is
\* started only after attempt n failed with an error that isRetriableError
\* classifies as transient (the run is then in its backoff sleep).
C5_RetryBudget ==
  /\ [](\A run \in BagToSet(runs) :
          /\ run.attempt >= 1 /\ run.attempt <= 3
          /\ run.pc = "sleep" => (retriable[run.lastError] /\ run.attempt < 3))
  /\ [][\A run \in BagToSet(runs) : \A next \in BagToSet(runs') :
          (runs' = (runs (-) SetToBag({run})) (+) SetToBag({next})
             /\ next.attempt # run.attempt)
            => (run.pc = "sleep" /\ next.attempt = run.attempt + 1)]_vars

C5_Witness ==
  \E run \in BagToSet(runs) : run.attempt = 3 /\ run.pc = "analyze"

\* C6: the backoff slept after failed attempt n is 1000 * 2^(n-1) ms: 1000 ms
\* after attempt 1, 2000 ms after attempt 2, and the formula gives 4000 ms
\* for n = 3.
C6_BackoffDelay ==
  /\ \A run \in BagToSet(runs) :
        run.pc = "sleep" =>
          /\ run.attempt \in {1, 2}
          /\ run.attempt = 1 => run.sleepMs = 1000
          /\ run.attempt = 2 => run.sleepMs = 2000
  /\ backoffMs(3) = 4 * 1000

C6_Witness ==
  \E run \in BagToSet(runs) : run.pc = "sleep" /\ run.attempt = 2 /\ run.sleepMs = 2000

\* the messages of ProbeMessages that contain, in any letter case, one of
\* the phrases rate limit, too many requests, temporarily unavailable,
\* service unavailable, timeout, network, or a bare 429/500/502/503/504
TransientMessages ==
  { "Rate Limit exceeded", "rate limited", "Too Many Requests",
    "TEMPORARILY UNAVAILABLE", "Service Unavailable", "Request Timeout",
    "NetworkError when attempting to fetch resource.", "HTTP 429", "code:503.",
    "502", "got 504, retrying" }

\* C7: isRetriableError(e) is true exactly when e has a numeric status that
\* is 429 or at least 500, or its message contains one of the transient
\* phrases or a bare 429/500/502/503/504 token.
C7_RetriableExactly ==
  probeOut # "none" =>
    ((probeOut = "true") <=>
       \/ (probeErr.status # NoStatus /\ (probeErr.status = 429 \/ probeErr.status >= 500))
       \/ probeErr.message \in TransientMessages)

C7_Witness == probeOut = "true" /\ probeErr = Err(429, "Not Found")

\* the fatal errors of an attempt: an empty profile, a missing credential, an
\* analyzer reply that cannot be parsed
FatalErrors ==
  {EmptyProfileError, SerpKeyMissing, GeminiKeyMissing}
  \cup {analysisFailed(c) : c \in JsonSyntaxErrors}

\* C8: fatal errors are never retried: after an attempt that failed with an
\* empty profile, an unparseable analyzer reply or a missing credential, no
\* backoff sleep and no further attempt happens.
C8_FatalNeverRetried ==
  \A run \in BagToSet(runs) : run.pc = "sleep" => run.lastError \notin FatalErrors

\* C9: a submission that ends by a step of its own (the page is not reloaded
\* under it) leaves its record either COMPLETED, the run
\* having passed the fetch of this attempt and the summary being the one the
\* analysis returned, or in ERROR with the error message surfaced; a run
\* that ends at the fetch never leaves the record COMPLETED.
C9_NoFakeSuccess ==
  [][\A run \in BagToSet(runs) :
       (calls' = calls /\ runs' = runs (-) SetToBag({run})) =>
         \A i \in 1..Len(researchers') :
           researchers'[i].id = run.id =>
             \/ /\ researchers'[i].status = COMPLETED
                /\ run.pc = "analyze"
                /\ researchers'[i].interests \in {resultSummary(t) : t \in ReplySummaries}
                /\ error' = error
             \/ /\ researchers'[i].status = ERROR
                /\ error' \in {e.message : e \in AttemptErrors}]_vars

\* the retry budget was used up on 503 answers of the publication source
C9_Witness ==
  /\ error = fetchFailed(SerpHttpError("503 Service Unavailable")).message
  /\ \E i \in 1..Len(researchers) : researchers[i].status = ERROR
  /\ runs = EmptyBag

\* C10: every COMPLETED record has a non-empty summary that the analyzer
\* returned; no placeholder summary is substituted.
C10_CompletedHasAnalyzerSummary ==
  \A i \in 1..Len(researchers) :
    researchers[i].status = COMPLETED =>
      researchers[i].interests \in (ReplySummaries \ {""})

\* the analysis fields of a record are empty / absent
NoAnalysis(r) ==
  /\ r.interests = ""
  /\ r.tags = <<>>
  /\ r.matchType = undefined
  /\ r.isMatch = undefined
  /\ r.matchedInterests = <<>>

\* C11: a record is PENDING only as the result of a link (handleScholarIdLink
\* or the URL parameters applied on load), and every link, from any prior
\* status, leaves it PENDING with summary, keyword evidence, matchType,
\* isMatch and matchedInterests empty / absent.
C11_LinkResetsAnalysis ==
  \A i \in 1..Len(researchers) :
    researchers[i].status = PENDING => NoAnalysis(researchers[i])

\* C12: a confirmed clear-all neither removes nor modifies a record whose
\* status is ANALYZING (LOADING) at the moment of the clear.
C12_ClearSparesAnalyzing ==
  [][ClearAll =>
       \A i \in 1..Len(researchers) :
         researchers[i].status = LOADING =>
           \E j \in 1..Len(researchers') : researchers'[j] = researchers[i]]_vars

T == matchOut.totalConcepts
M == Len(matchOut.matchedInterests)

\* C14: for every T >= 1, when the number of matched interests M equals T
\* the result is PERFECT with isMatch true, T = 1 and M = 1 included.
C14_AllMatchedIsPerfect ==
  (matchOut.done /\ T >= 1 /\ M = T) =>
    (matchOut.matchType = PERFECT /\ matchOut.isMatch = TRUE)

\* one interest, and it is matched
C14_Witness ==
  /\ matchOut.done
  /\ T = 1
  /\ M = 1
  /\ matchOut.matchType = PERFECT

\* the least integer that is at least 0.8 * n
CeilFourFifths(n) == CHOOSE k \in 0..n : 5 * k >= 4 * n /\ 5 * (k - 1) < 4 * n

\* C15: for 2 <= M < T the result has isMatch true and is HIGH when
\* M >= ceil(0.8 * T), otherwise PARTIAL when M >= 3, otherwise LOW; with
\* T = 5, M = 4 is HIGH, M = 3 is PARTIAL and M = 2 is LOW.
C15_PartialMatchTiers ==
  (matchOut.done /\ 2 <= M /\ M < T) =>
    /\ matchOut.isMatch = TRUE
    /\ matchOut.matchType =
         IF M >= CeilFourFifths(T) THEN HIGH ELSE IF M >= 3 THEN PARTIAL ELSE LOW
    /\ (T = 5 /\ M = 4) => matchOut.matchType = HIGH
    /\ (T = 5 /\ M = 3) => matchOut.matchType = PARTIAL
    /\ (T = 5 /\ M = 2) => matchOut.matchType = LOW

\* four of five interests are matched
C15_Witness ==
  /\ matchOut.done
  /\ T = 5
  /\ M = 4
  /\ matchOut.matchType = HIGH
  /\ matchOut.isMatch = TRUE

\* C16: the result is NONE with isMatch false whenever T = 0, whatever the
\* reply reports as matched, and whenever M is 0 or 1 with M < T; isMatch is
\* true exactly when the match type is not NONE.
C16_NoMatchCases ==
  /\ (matchOut.done /\ (T = 0 \/ (M <= 1 /\ M < T))) =>
       (matchOut.matchType = NONE /\ matchOut.isMatch = FALSE)
  /\ matchOut.isMatch = (matchOut.matchType # NONE)

\* one of five interests is matched
C16_Witness ==
  /\ matchOut.done
  /\ T = 5
  /\ M = 1
  /\ matchOut.matchType = NONE
  /\ matchOut.isMatch = FALSE

\* the interests of the text that differ after lower-casing
DistinctInterests(interestText) ==
  LET parsed == parsedUserInterests(interestText)
  IN {toLowerCase(parsed[i]) : i \in 1..Len(parsed)}

\* C17: the total T the classifier uses is the number of interests of the
\* user's text that are distinct without regard to case (after splitting on
\* commas and semicolons, trimming and discarding empties), and M counts
\* members of that same set.
C17_TotalCountsDistinct ==
  matchOut.done =>
    /\ T = Cardinality(DistinctInterests(matchIn.userInterests))
    /\ M = Cardinality({toLowerCase(matchOut.matchedInterests[i]) : i \in 1..M})
    /\ \A i \in 1..M :
         toLowerCase(matchOut.matchedInterests[i]) \in DistinctInterests(matchIn.userInterests)

\* C18: the stored matchedInterests holds only interests of the user's text
\* (compared without regard to case), each in the spelling the user typed
\* and at most once, so M <= T; for the text 'Medical Imaging, Robotics,
\* NLP' and the reply ['medical imaging', 'robotics'] it is
\* ['Medical Imaging', 'Robotics'], LOW, isMatch true.
C18_MatchedWithinUserSet ==
  matchOut.done =>
    LET parsed == parsedUserInterests(matchIn.userInterests)
        matched == matchOut.matchedInterests
    IN /\ \A i \in 1..M : \E k \in 1..Len(parsed) : matched[i] = parsed[k]
       /\ \A i, j \in 1..M : i # j => toLowerCase(matched[i]) # toLowerCase(matched[j])
       /\ M <= T
       /\ ( /\ matchIn.userInterests = "Medical Imaging, Robotics, NLP"
            /\ matchIn.field = MatchedField(TRUE, <<Str("medical imaging"), Str("robotics")>>) )
          => /\ matched = <<"Medical Imaging", "Robotics">>
             /\ matchOut.matchType = LOW
             /\ matchOut.isMatch = TRUE

\* the text and the reply of the example, classified
C18_Witness ==
  /\ matchOut.done
  /\ matchIn.userInterests = "Medical Imaging, Robotics, NLP"
  /\ matchIn.field = MatchedField(TRUE, <<Str("medical imaging"), Str("robotics")>>)
  /\ matchOut.matchedInterests = <<"Medical Imaging", "Robotics">>

\* C19: in every reachable state a record whose status is ANALYZING
\* (LOADING) has a non-empty source id (scholarAuthorId).
C19_LoadingHasSourceId ==
  \A i \in 1..Len(researchers) :
    researchers[i].status = LOADING => researchers[i].scholarAuthorId # ""

\* a record that had no source id was submitted with one and its run is in
\* flight
C19_Witness ==
  \E i \in 1..Len(researchers) :
    /\ researchers[i].status = LOADING
    /\ researchers[i].scholarAuthorId \in SourceIds
    /\ \E run \in BagToSet(runs) :
         run.id = researchers[i].id /\ run.scholarId = researchers[i].scholarAuthorId

\* C20: in every reachable state the summary and the keyword evidence
\* (interests and tags) are populated only for COMPLETED records; a record
\* in AWAITING_SCHOLAR_ID, PENDING, LOADING or ERROR carries none.
C20_ResultsOnlyWhenCompleted ==
  \A i \in 1..Len(researchers) :
    researchers[i].status # COMPLETED =>
      (researchers[i].interests = "" /\ researchers[i].tags = <<>>)

\* a request to a collaborator is in flight for the run: the fetch of line
\* 43 of serpApiService.ts or the generateContent call of the analyzer, each
\* issued only after the key test of its function passed
requestInFlight(run) ==
  \/ run.pc = "fetch" /\ config.serpKey
  \/ run.pc = "analyze" /\ config.geminiKey

\* the publication source answered a request of the run's current attempt
requestAnswered(run) == run.pc = "analyze"

\* C21: when the key of the publication source or the key of the analyzer
\* is missing, a submission fails without a request to either collaborator
\* having been issued.
C21_MissingKeyNoRequest ==
  (~config.serpKey \/ ~config.geminiKey) =>
    \A run \in BagToSet(runs) : ~requestInFlight(run) /\ ~requestAnswered(run)

\* C22: whenever a record is in status ERROR a message describing a failed
\* attempt is available to the user; it is not lost or overwritten by other
\* records' submissions, failures or links while the record stays in ERROR.
C22_ErrorMessageKept ==
  (\E i \in 1..Len(researchers) : researchers[i].status = ERROR) =>
    error \in {e.message : e \in AttemptErrors}

\* C23: no two records of the list have the same name when compared without
\* regard to case: a name already present, and a name repeated within one
\* extracted list, is added at most once.
C23_NamesDistinct ==
  \A i, j \in 1..Len(researchers) :
    i # j => lowerName[researchers[i].name] # lowerName[researchers[j].name]

\* C24: a record enters ANALYZING (LOADING) only from PENDING or ERROR, and
\* a record that is LOADING changes status only to COMPLETED or ERROR, in a
\* step of a pipeline run of its own; no other operation changes the status
\* of a LOADING record.
C24_LoadingTransitions ==
  [][\A i \in 1..Len(researchers) : \A j \in 1..Len(researchers') :
       researchers'[j].id = researchers[i].id =>
         /\ (researchers[i].status # LOADING /\ researchers'[j].status = LOADING)
              => researchers[i].status \in {PENDING, ERROR}
         /\ (researchers[i].status = LOADING /\ researchers'[j].status # LOADING)
              => /\ researchers'[j].status \in {COMPLETED, ERROR}
                 /\ calls' = calls
                 /\ \E run \in BagToSet(runs) :
                      run.id = researchers[i].id /\ runs' = runs (-) SetToBag({run})]_vars

\* the runs that submitting the records at the positions of set starts
submittedRuns(set) ==
  SetToBag({[id |-> researchers[i].id, scholarId |-> researchers[i].scholarAuthorId,
             interestText |-> userInterests, attempt |-> 1, pc |-> "fetch",
             lastError |-> NoErr, sleepMs |-> 0] : i \in set})

\* the records at the positions of set, and no other, become LOADING
onlySubmitted(set) ==
  /\ Len(researchers') = Len(researchers)
  /\ \A i \in 1..Len(researchers) :
       researchers'[i] = IF i \in set THEN [researchers[i] EXCEPT !.status = LOADING]
                         ELSE researchers[i]

\* C25: analyze-all submits exactly the records that have a source id and
\* whose status is neither COMPLETED nor LOADING, and retry-all submits
\* exactly the records in ERROR that have a source id; no other record is
\* submitted by either.
C25_BatchSubmitsEligible ==
  [][/\ AnalyzeAll =>
          LET eligible == {i \in 1..Len(researchers) :
                             /\ researchers[i].scholarAuthorId # ""
                             /\ researchers[i].status \notin {COMPLETED, LOADING}}
          IN runs' = runs (+) submittedRuns(eligible) /\ onlySubmitted(eligible)
     /\ RetryFailed =>
          LET failed == {i \in 1..Len(researchers) :
                           /\ researchers[i].status = ERROR
                           /\ researchers[i].scholarAuthorId # ""}
          IN runs' = runs (+) submittedRuns(failed) /\ onlySubmitted(failed)]_vars

\* analyze-all was called with a COMPLETED record that has a source id: it
\* submitted nothing and reported that no record is ready
C25_Witness ==
  /\ error = "No researchers with author IDs ready to analyze (already analyzed or missing ID)"
  /\ runs = EmptyBag
  /\ \E i \in 1..Len(researchers) :
       researchers[i].status = COMPLETED /\ researchers[i].scholarAuthorId # ""

\* C26: the promise of runWithConcurrency settles only after every record
\* of the batch has been claimed and the work of every claimed record has
\* finished; it never settles while a work invocation is in flight.
C26_SettlesAfterAllWork ==
  poolResult \in {"fulfilled", "rejected"} =>
    /\ InvocationsInFlight = {}
    /\ \A i \in 1..items : invoked[i] = 1 /\ i \in settled

\* the ids records can have
RecordIds == 1..(2 * (MaxCalls + 1))

\* C27: every record that is ANALYZING (LOADING), one restored in that
\* status when the page loads included, eventually is COMPLETED or in
\* ERROR (or is no longer in the list), every collaborator call and every
\* backoff sleep eventually finishing.
C27_LoadingEventuallySettles ==
  \A id \in RecordIds :
    (\E i \in 1..Len(researchers) :
       researchers[i].id = id /\ researchers[i].status = LOADING)
    ~> (\A i \in 1..Len(researchers) :
          researchers[i].id = id => researchers[i].status \in {COMPLETED, ERROR})

\* C28: the results stored on a COMPLETED record were produced by a run for
\* the record's current source id (the stored profile URL is the one of
\* that id): the result of a run started for an id that has since been
\* replaced by a link is never attached to the record.
C28_ResultsOfCurrentSourceId ==
  \A i \in 1..Len(researchers) :
    researchers[i].status = COMPLETED =>
      researchers[i].profileUrl = <<profileUrlOf(researchers[i].scholarAuthorId)>>

\* C29: the outcome of a pipeline run changes only the record with the
\* run's id: a step of a run neither adds nor removes a record, so an
\* outcome that arrives for a record deleted or cleared meanwhile does not
\* re-create it, and every record with another id is left as it was.
C29_OutcomeTouchesOwnRecord ==
  [][calls' = calls =>
       \A run \in BagToSet(runs) :
         CopiesIn(run, runs') < CopiesIn(run, runs) =>
           /\ Len(researchers') = Len(researchers)
           /\ \A i \in 1..Len(researchers) :
                /\ researchers'[i].id = researchers[i].id
                /\ researchers[i].id # run.id => researchers'[i] = researchers[i]]_vars

\* the run of a record that is no longer in the list has failed: the
\* failure is reported, the record is not back, and the record that was
\* extracted with it is as extracted
C29_Witness ==
  /\ runs = EmptyBag
  /\ error \in {e.message : e \in AttemptErrors}
  /\ Len(researchers) = 1
  /\ nextId = 3
  /\ researchers[1] = NewResearcher(researchers[1].id, researchers[1].name)

\* the positions of the chain whose callback has not finished
Unfinished == {k \in 1..Len(generationQueue) : generationQueue[k].st # "done"}

====
